---- MODULE Spec2Model ----
(***************************************************************************)
(* DatabaseAdminClient (spanner/src/admin/database/database_admin_client.rs) *)
(* as a state machine: calls on one shared client, each call running the   *)
(* retrying call `invoke` around single RPC attempts, the list methods      *)
(* looping over pages, the operation-starting methods wrapping the          *)
(* returned descriptor in an Operation handle.                              *)
(***************************************************************************)
EXTENDS Naturals, Sequences, FiniteSets, TLC

VARIABLES
    method,       \* call -> the method invoked ("" before the call is made)
    req,          \* call -> the method's own `req` (a list method mutates page_token)
    given,        \* call -> the Option<RetrySetting> the caller passed
    retry,        \* call -> the RetrySetting in force (line 42 and its copies)
    all_items,    \* call -> all_databases / all_backups / all_operations
    pc,           \* call -> position of the call
    attempts,     \* call -> attempts made by the retrying call in progress
    inflight,     \* call -> the decorated request of the attempt in flight
    result,       \* call -> what the method returned to its caller
    served,       \* history: call -> the pages returned by successful list RPCs
    rpcs,         \* history: call -> number of RPC attempts issued by the call
    lastAttempt,  \* history: call -> outcome of the latest completed attempt
    asked,        \* history: call -> the request as the caller passed it
    cancelled     \* call -> the caller dropped the future of the call

vars == <<method, req, given, retry, all_items, pc, attempts, inflight,
          result, served, rpcs, lastAttempt, asked, cancelled>>

-----------------------------------------------------------------------------
(* Bounds of the model *)

\* pages a well-behaved server holds for one listing
MaxPages == 3
\* items on one page
MaxPageLen == 2
\* largest attempt limit a caller-supplied policy carries
MaxAttempts == 2

-----------------------------------------------------------------------------
(* Values *)

None == [kind |-> "none"]

\* the non-empty continuation tokens the service hands out
Tokens == {"t1", "t2"}

\* resource names a caller puts in the routing field of a request
Names == {"projects/p/instances/i", "projects/p/instances/j"}

\* gRPC status codes a failed attempt carries
Codes == {"Unavailable", "Aborted", "NotFound"}

ListMethods == {"list_databases", "list_backups", "list_backup_operations",
                "list_database_operations"}
LroMethods == {"create_database", "update_database_ddl", "create_backup",
               "restore_database"}
UnaryMethods == {"get_database", "drop_database", "get_database_ddl",
                 "set_iam_policy", "get_iam_policy", "test_iam_permissions",
                 "get_backup", "update_backup", "delete_backup"}

\* the request field each method reads its routing value from
RoutingField(m) ==
    CASE m \in {"list_databases", "create_database", "create_backup", "list_backups",
                "restore_database", "list_backup_operations",
                "list_database_operations"} -> "parent"
      [] m \in {"get_database", "get_backup", "delete_backup"} -> "name"
      [] m \in {"update_database_ddl", "drop_database", "get_database_ddl"} -> "database"
      [] m \in {"set_iam_policy", "get_iam_policy", "test_iam_permissions"} -> "resource"
      [] m = "update_backup" -> "backup.name"

\* the repeated field of each list response
ItemsField(m) ==
    CASE m = "list_databases" -> "databases"
      [] m = "list_backups" -> "backups"
      [] OTHER -> "operations"

\* the requests a caller can pass to method m
Requests(m) ==
    IF m \in ListMethods
    THEN {[parent |-> n, page_size |-> 10, page_token |-> t] :
             n \in Names, t \in {"", "t1"}}
    ELSE IF m = "update_backup"
    THEN {[backup |-> None]} \cup {[backup |-> [kind |-> "some", name |-> n]] : n \in Names}
    ELSE {(RoutingField(m) :> n) : n \in Names}

-----------------------------------------------------------------------------
(* Collaborators outside this file *)

\* crate::admin::default_retry_setting
DefaultMaxAttempts == 2
default_retry_setting == [max_attempts |-> DefaultMaxAttempts, codes |-> {"Unavailable"}]

\* the policies a caller can pass as Some(RetrySetting)
CallerSettings == {[max_attempts |-> n, codes |-> {"Aborted"}] : n \in {1, MaxAttempts}}
RetryOptions == {None} \cup {[kind |-> "some", value |-> s] : s \in CallerSettings}

\* google_cloud_gax::create_request: the payload with the routing parameter as metadata
create_request(param, r) == [metadata |-> param, message |-> r]

\* the retry condition of google_cloud_gax::retry::invoke
IsRetryable(setting, status) == status.code \in setting.codes

\* invoke re-attempts a failed attempt only on a retryable status within the limit
ShouldRetry(setting, status, made) ==
    IsRetryable(setting, status) /\ made < setting.max_attempts

\* google_cloud_longrunning::longrunning::Operation::new
Operation_new(client, inner) == [kind |-> "operation", client |-> client, inner |-> inner]

-----------------------------------------------------------------------------
(* The client and the pure parts of its methods *)

\* DatabaseAdminClient.lro_client, shared by every handle the client produces
lro_client == "lro_client"

\* a variant that leaves the caller's setting aside
RetryOfDefault(opt) == default_retry_setting

\* let retry = Some(retry.unwrap_or_else(default_retry_setting));
RetryOf(opt) == IF opt = None THEN default_retry_setting ELSE opt.value

\* the routing value the method borrows from its request
RoutingValue(m, r) ==
    IF m = "update_backup" THEN r.backup.name ELSE r[RoutingField(m)]

\* format!("parent={parent}") and its copies
RoutingParam(m, r) == RoutingField(m) \o "=" \o RoutingValue(m, r)

\* a variant that sends the request without routing metadata
BuildRequestNoRouting(m, r) == create_request("", r)

\* let request = create_request(format!(...), req.clone());
BuildRequest(m, r) == create_request(RoutingParam(m, r), r)

\* Response::into_inner
into_inner(response) == response.message

\* a variant that puts the newest page in front of the accumulator
ExtendFront(all, m, page) == page[ItemsField(m)] \o all

\* all_databases.extend(response.databases.into_iter());
Extend(all, m, page) == all \o page[ItemsField(m)]

\* a variant with the test negated
IsLastPageNegated(page) == page.next_page_token # ""

\* a variant that takes a page without items for the end of the listing
IsLastPageNoItems(page) ==
    \E f \in DOMAIN page \ {"next_page_token"} : page[f] = <<>>

\* response.next_page_token.is_empty()
IsLastPage(page) == page.next_page_token = ""

\* a variant that builds the next request anew and loses the page size
NextPageRequestRebuilt(r, page) ==
    [parent |-> r.parent, page_size |-> 0, page_token |-> page.next_page_token]

\* req.page_token = response.next_page_token;
NextPageRequest(r, page) == [r EXCEPT !.page_token = page.next_page_token]

\* a variant that gives each handle an operations client of its own
LroResultOwnClient(response) == Operation_new("new_client", into_inner(response))

\* .map(|d| Operation::new(self.lro_client.clone(), d.into_inner()))
LroResult(response) == Operation_new(lro_client, into_inner(response))

-----------------------------------------------------------------------------
(* The service *)

RECURSIVE Concat(_)
\* the per-page item sequences of a history of pages, one after the other
Concat(pages) ==
    IF pages = <<>> THEN <<>> ELSE Head(pages).items \o Concat(Tail(pages))

\* the service numbers the items it serves: no two items of a listing are equal
FreshItems(c, k) == [i \in 1..k |-> Len(Concat(served[c])) + i]

\* the tokens the pages returned so far in call c carried
ReturnedTokens(c) == {served[c][i].token : i \in 1..Len(served[c])}

\* a page of method m as the service encodes it
PageMessage(m, items, token) ==
    (ItemsField(m) :> items) @@ ("next_page_token" :> token)

Response(message) == [metadata |-> "trailers", message |-> message]

\* a page is empty, holds one item, or is full
PageLens == {0, 1, MaxPageLen}

\* pages with the given continuation tokens
PagesWith(c, tokens) ==
    {Response(PageMessage(method[c], FreshItems(c, k), t)) :
        k \in PageLens, t \in tokens}

\* a service that holds at most MaxPages pages per listing
ListPages(c) ==
    PagesWith(c, {""} \cup (IF Len(served[c]) + 1 < MaxPages THEN Tokens ELSE {}))

\* a service that never hands out a token twice within a listing
FreshPages(c) ==
    IF Len(served[c]) <= Cardinality(Tokens)
    THEN PagesWith(c, {""} \cup (Tokens \ ReturnedTokens(c)))
    ELSE {}

\* a service that never ends a listing (it may repeat tokens)
EndlessPages(c) ==
    IF Len(served[c]) < MaxPages THEN PagesWith(c, Tokens) ELSE {}

Descriptors == {[name |-> "operations/1", done |-> d] : d \in BOOLEAN}
Bodies == {"b1", "b2"}

\* the successful responses the service can give to the attempt in flight
ServerOk(c) ==
    IF method[c] \in ListMethods THEN ListPages(c)
    ELSE IF method[c] \in LroMethods THEN {Response(d) : d \in Descriptors}
    ELSE {Response(b) : b \in Bodies}

\* a failed attempt: its status carries the serial number of the attempt
Status(c, code) == [code |-> code, message |-> rpcs[c]]

\* the page a list response carried, as the history records it
PageOf(m, response) ==
    [items |-> response.message[ItemsField(m)],
     token |-> response.message.next_page_token]

-----------------------------------------------------------------------------
(* Results *)

Ok(v) == [kind |-> "ok", value |-> v]
Err(e) == [kind |-> "err", value |-> e]

\* a variant that re-codes the status on its way out
PropagateRecoded(status) == [status EXCEPT !.code = "Unknown"]

\* a Status error leaves the method as it left invoke (`?`, or invoke's result returned)
Propagate(status) == status

\* a variant that rebuilds the response around the message, losing the metadata
UnaryResultRebuilt(response) == [metadata |-> "", message |-> into_inner(response)]

\* a unary method returns invoke's response as it is
UnaryResult(response) == response

-----------------------------------------------------------------------------
(* Initial state *)

\* the calls of a run; those of Callers are made one at a time
CallIds == {1, 2}
Callers == {1}

InitCalls(ids) ==
    /\ method = [c \in ids |-> ""]
    /\ req = [c \in ids |-> None]
    /\ given = [c \in ids |-> None]
    /\ retry = [c \in ids |-> None]
    /\ all_items = [c \in ids |-> <<>>]
    /\ pc = [c \in ids |-> "idle"]
    /\ attempts = [c \in ids |-> 0]
    /\ inflight = [c \in ids |-> None]
    /\ result = [c \in ids |-> None]
    /\ served = [c \in ids |-> <<>>]
    /\ rpcs = [c \in ids |-> 0]
    /\ lastAttempt = [c \in ids |-> None]
    /\ asked = [c \in ids |-> None]
    /\ cancelled = [c \in ids |-> FALSE]

Init == InitCalls(CallIds)

-----------------------------------------------------------------------------
(* Entering a method: lines 42-44 and their copies *)

\* a variant that starts every listing from the first page
BeginFromFirstPage(c, m, r, opt) ==
    /\ pc[c] = "idle"
    /\ method' = [method EXCEPT ![c] = m]
    /\ req' = [req EXCEPT ![c] =
                 IF m \in ListMethods THEN [r EXCEPT !.page_token = ""] ELSE r]
    /\ asked' = [asked EXCEPT ![c] = r]
    /\ given' = [given EXCEPT ![c] = opt]
    /\ retry' = [retry EXCEPT ![c] = RetryOf(opt)]
    /\ all_items' = [all_items EXCEPT ![c] = <<>>]
    /\ attempts' = [attempts EXCEPT ![c] = 0]
    /\ pc' = [pc EXCEPT ![c] =
                IF m = "update_backup" /\ r.backup = None THEN "panicked" ELSE "invoke"]
    /\ UNCHANGED <<inflight, result, served, rpcs, lastAttempt, cancelled>>

\* a variant that answers a request without backup with an error value
BeginChecked(c, m, r, opt) ==
    /\ pc[c] = "idle"
    /\ method' = [method EXCEPT ![c] = m]
    /\ req' = [req EXCEPT ![c] = r]
    /\ asked' = [asked EXCEPT ![c] = r]
    /\ given' = [given EXCEPT ![c] = opt]
    /\ retry' = [retry EXCEPT ![c] = RetryOf(opt)]
    /\ all_items' = [all_items EXCEPT ![c] = <<>>]
    /\ attempts' = [attempts EXCEPT ![c] = 0]
    /\ IF m = "update_backup" /\ r.backup = None
       THEN /\ pc' = [pc EXCEPT ![c] = "done"]
            /\ result' = [result EXCEPT ![c] =
                            Err([code |-> "InvalidArgument", message |-> 0])]
       ELSE /\ pc' = [pc EXCEPT ![c] = "invoke"]
            /\ result' = result
    /\ UNCHANGED <<inflight, served, rpcs, lastAttempt, cancelled>>

Begin(c, m, r, opt) ==
    /\ pc[c] = "idle"
    /\ method' = [method EXCEPT ![c] = m]
    /\ req' = [req EXCEPT ![c] = r]
    /\ asked' = [asked EXCEPT ![c] = r]
    /\ given' = [given EXCEPT ![c] = opt]
    /\ retry' = [retry EXCEPT ![c] = RetryOf(opt)]
    /\ all_items' = [all_items EXCEPT ![c] = <<>>]
    /\ attempts' = [attempts EXCEPT ![c] = 0]
    \* update_backup: req.backup.as_ref().unwrap() panics on an absent backup
    /\ pc' = [pc EXCEPT ![c] =
                IF m = "update_backup" /\ r.backup = None THEN "panicked" ELSE "invoke"]
    /\ UNCHANGED <<inflight, result, served, rpcs, lastAttempt, cancelled>>

Call(c, m) == \E r \in Requests(m), opt \in RetryOptions : Begin(c, m, r, opt)

list_databases(c) == Call(c, "list_databases")
create_database(c) == Call(c, "create_database")
get_database(c) == Call(c, "get_database")
update_database_ddl(c) == Call(c, "update_database_ddl")
drop_database(c) == Call(c, "drop_database")
get_database_ddl(c) == Call(c, "get_database_ddl")
set_iam_policy(c) == Call(c, "set_iam_policy")
get_iam_policy(c) == Call(c, "get_iam_policy")
test_iam_permissions(c) == Call(c, "test_iam_permissions")
create_backup(c) == Call(c, "create_backup")
get_backup(c) == Call(c, "get_backup")
update_backup(c) == Call(c, "update_backup")
delete_backup(c) == Call(c, "delete_backup")
list_backups(c) == Call(c, "list_backups")
restore_database(c) == Call(c, "restore_database")
list_backup_operations(c) == Call(c, "list_backup_operations")
list_database_operations(c) == Call(c, "list_database_operations")

-----------------------------------------------------------------------------
(* One attempt of the retrying call: the closure `action` *)

Attempt(c) ==
    /\ pc[c] = "invoke"
    /\ inflight' = [inflight EXCEPT ![c] = BuildRequest(method[c], req[c])]
    /\ attempts' = [attempts EXCEPT ![c] = @ + 1]
    /\ rpcs' = [rpcs EXCEPT ![c] = @ + 1]
    /\ pc' = [pc EXCEPT ![c] = "await"]
    /\ UNCHANGED <<method, req, given, retry, all_items, result, served, lastAttempt,
                   asked, cancelled>>

-----------------------------------------------------------------------------
(* What each method does with Ok(response) from invoke *)

\* a variant where the pages of a listing share one budget of attempts
ListPageSharedBudget(c, response) ==
    LET page == into_inner(response)
        all == Extend(all_items[c], method[c], page)
    IN /\ all_items' = [all_items EXCEPT ![c] = all]
       /\ UNCHANGED attempts
       /\ IF IsLastPage(page)
          THEN /\ result' = [result EXCEPT ![c] = Ok(all)]
               /\ pc' = [pc EXCEPT ![c] = "done"]
               /\ UNCHANGED req
          ELSE /\ req' = [req EXCEPT ![c] = NextPageRequest(req[c], page)]
               /\ pc' = [pc EXCEPT ![c] = "invoke"]
               /\ result' = result

\* a variant that keeps the page token in one place for every listing under way
ListPageSharedToken(c, response) ==
    LET page == into_inner(response)
        all == Extend(all_items[c], method[c], page)
    IN /\ all_items' = [all_items EXCEPT ![c] = all]
       /\ IF IsLastPage(page)
          THEN /\ result' = [result EXCEPT ![c] = Ok(all)]
               /\ pc' = [pc EXCEPT ![c] = "done"]
               /\ UNCHANGED <<req, attempts>>
          ELSE /\ req' = [d \in DOMAIN req |->
                            IF method[d] \in ListMethods
                            THEN NextPageRequest(req[d], page) ELSE req[d]]
               /\ pc' = [pc EXCEPT ![c] = "invoke"]
               /\ attempts' = [attempts EXCEPT ![c] = 0]
               /\ result' = result

\* a variant that tests the page token of the request instead of the response's
ListPageTestsRequest(c, response) ==
    LET page == into_inner(response)
        all == Extend(all_items[c], method[c], page)
    IN /\ all_items' = [all_items EXCEPT ![c] = all]
       /\ IF req[c].page_token = ""
          THEN /\ result' = [result EXCEPT ![c] = Ok(all)]
               /\ pc' = [pc EXCEPT ![c] = "done"]
               /\ UNCHANGED <<req, attempts>>
          ELSE /\ req' = [req EXCEPT ![c] = NextPageRequest(req[c], page)]
               /\ pc' = [pc EXCEPT ![c] = "invoke"]
               /\ attempts' = [attempts EXCEPT ![c] = 0]
               /\ result' = result

\* a variant that also ends the listing when the service hands back the token
\* the request carried
ListPageCycleGuard(c, response) ==
    LET page == into_inner(response)
        all == Extend(all_items[c], method[c], page)
    IN /\ all_items' = [all_items EXCEPT ![c] = all]
       /\ IF IsLastPage(page) \/ page.next_page_token = req[c].page_token
          THEN /\ result' = [result EXCEPT ![c] = Ok(all)]
               /\ pc' = [pc EXCEPT ![c] = "done"]
               /\ UNCHANGED <<req, attempts>>
          ELSE /\ req' = [req EXCEPT ![c] = NextPageRequest(req[c], page)]
               /\ pc' = [pc EXCEPT ![c] = "invoke"]
               /\ attempts' = [attempts EXCEPT ![c] = 0]
               /\ result' = result

\* lines 52-56: extend, return on an empty token, else move the page token and loop
ListPage(c, response) ==
    LET page == into_inner(response)
        all == Extend(all_items[c], method[c], page)
    IN /\ all_items' = [all_items EXCEPT ![c] = all]
       /\ IF IsLastPage(page)
          THEN /\ result' = [result EXCEPT ![c] = Ok(all)]
               /\ pc' = [pc EXCEPT ![c] = "done"]
               /\ UNCHANGED <<req, attempts>>
          ELSE /\ req' = [req EXCEPT ![c] = NextPageRequest(req[c], page)]
               /\ pc' = [pc EXCEPT ![c] = "invoke"]
               \* the next page is a new invoke(retry.clone(), action)
               /\ attempts' = [attempts EXCEPT ![c] = 0]
               /\ result' = result

\* lines 77-79: the descriptor goes into an Operation handle
StartOperation(c, response) ==
    /\ result' = [result EXCEPT ![c] = Ok(LroResult(response))]
    /\ pc' = [pc EXCEPT ![c] = "done"]
    /\ UNCHANGED <<req, all_items, attempts>>

\* line 95: invoke(retry, action).await
ReturnResponse(c, response) ==
    /\ result' = [result EXCEPT ![c] = Ok(UnaryResult(response))]
    /\ pc' = [pc EXCEPT ![c] = "done"]
    /\ UNCHANGED <<req, all_items, attempts>>

\* a variant in which a list method hands back what it has collected so far
ReturnPartial(c, status) ==
    /\ result' = [result EXCEPT ![c] =
                    IF method[c] \in ListMethods THEN Ok(all_items[c])
                    ELSE Err(Propagate(status))]
    /\ pc' = [pc EXCEPT ![c] = "done"]
    /\ UNCHANGED <<req, all_items, attempts>>

\* what each method does with Err(status) from invoke: it returns it
ReturnError(c, status) ==
    /\ result' = [result EXCEPT ![c] = Err(Propagate(status))]
    /\ pc' = [pc EXCEPT ![c] = "done"]
    /\ UNCHANGED <<req, all_items, attempts>>

-----------------------------------------------------------------------------
(* The attempt in flight completes *)

\* it succeeds: invoke returns the response untouched to the method
Succeeds(c, response) ==
    /\ pc[c] = "await"
    /\ lastAttempt' = [lastAttempt EXCEPT ![c] = Ok(response)]
    /\ served' = [served EXCEPT ![c] =
                    IF method[c] \in ListMethods
                    THEN Append(@, PageOf(method[c], response)) ELSE @]
    /\ inflight' = [inflight EXCEPT ![c] = None]
    /\ CASE method[c] \in ListMethods -> ListPage(c, response)
         [] method[c] \in LroMethods -> StartOperation(c, response)
         [] OTHER -> ReturnResponse(c, response)
    /\ UNCHANGED <<method, given, retry, rpcs, asked, cancelled>>

AttemptOk(c) == \E response \in ServerOk(c) : Succeeds(c, response)

\* it fails: invoke backs off and re-attempts, or returns the status to the method
AttemptErr(c) ==
    /\ pc[c] = "await"
    /\ \E code \in Codes :
        LET status == Status(c, code)
        IN /\ lastAttempt' = [lastAttempt EXCEPT ![c] = Err(status)]
           /\ inflight' = [inflight EXCEPT ![c] = None]
           /\ IF ShouldRetry(retry[c], status, attempts[c])
              THEN /\ pc' = [pc EXCEPT ![c] = "backoff"]
                   /\ UNCHANGED <<req, all_items, attempts, result>>
              ELSE ReturnError(c, status)
    /\ UNCHANGED <<method, given, retry, served, rpcs, asked, cancelled>>

\* the backoff delay of invoke elapses
Backoff(c) ==
    /\ pc[c] = "backoff"
    /\ pc' = [pc EXCEPT ![c] = "invoke"]
    /\ UNCHANGED <<method, req, given, retry, all_items, attempts, inflight,
                   result, served, rpcs, lastAttempt, asked, cancelled>>

-----------------------------------------------------------------------------
(* The caller drops the future of a call that is suspended in invoke(..).await *)

\* a variant where the call is a detached task that outlives the caller's future
CancelDetached(c) ==
    /\ pc[c] \in {"invoke", "await", "backoff"}
    /\ ~cancelled[c]
    /\ cancelled' = [cancelled EXCEPT ![c] = TRUE]
    /\ UNCHANGED <<method, req, given, retry, all_items, pc, attempts, inflight,
                   result, served, rpcs, lastAttempt, asked>>

\* the future is dropped with its locals and the attempt it was waiting for;
\* it is never polled again
Cancel(c) ==
    /\ pc[c] \in {"invoke", "await", "backoff"}
    /\ ~cancelled[c]
    /\ cancelled' = [cancelled EXCEPT ![c] = TRUE]
    /\ inflight' = [inflight EXCEPT ![c] = None]
    /\ pc' = [pc EXCEPT ![c] = "cancelled"]
    /\ UNCHANGED <<method, req, given, retry, all_items, attempts, result, served,
                   rpcs, lastAttempt, asked>>

-----------------------------------------------------------------------------
(* Specification: any method, any request, a service that ends its listings *)

Next ==
    \/ \E c \in Callers : list_databases(c)
    \/ \E c \in Callers : create_database(c)
    \/ \E c \in Callers : get_database(c)
    \/ \E c \in Callers : update_database_ddl(c)
    \/ \E c \in Callers : drop_database(c)
    \/ \E c \in Callers : get_database_ddl(c)
    \/ \E c \in Callers : set_iam_policy(c)
    \/ \E c \in Callers : get_iam_policy(c)
    \/ \E c \in Callers : test_iam_permissions(c)
    \/ \E c \in Callers : create_backup(c)
    \/ \E c \in Callers : get_backup(c)
    \/ \E c \in Callers : update_backup(c)
    \/ \E c \in Callers : delete_backup(c)
    \/ \E c \in Callers : list_backups(c)
    \/ \E c \in Callers : restore_database(c)
    \/ \E c \in Callers : list_backup_operations(c)
    \/ \E c \in Callers : list_database_operations(c)
    \/ \E c \in Callers : Attempt(c)
    \/ \E c \in Callers : AttemptOk(c)
    \/ \E c \in Callers : AttemptErr(c)
    \/ \E c \in Callers : Backoff(c)

Spec == Init /\ [][Next]_vars

-----------------------------------------------------------------------------
(* Specification: listings against a service that never repeats a token.     *)
(* The caller awaits the call, every attempt is answered and every backoff   *)
(* elapses. The service answers while it has tokens left to hand out.        *)

HasFreshPage(c) == Len(served[c]) <= Cardinality(Tokens)

AttemptOkFresh(c) == \E response \in FreshPages(c) : Succeeds(c, response)

AttemptErrFresh(c) == HasFreshPage(c) /\ AttemptErr(c)

NextFresh ==
    \/ \E c \in Callers : list_databases(c)
    \/ \E c \in Callers : list_backups(c)
    \/ \E c \in Callers : list_backup_operations(c)
    \/ \E c \in Callers : list_database_operations(c)
    \/ \E c \in Callers : Attempt(c)
    \/ \E c \in Callers : AttemptOkFresh(c)
    \/ \E c \in Callers : AttemptErrFresh(c)
    \/ \E c \in Callers : Backoff(c)

FairFresh ==
    \A c \in Callers :
        /\ WF_vars(Attempt(c))
        /\ WF_vars(AttemptOkFresh(c) \/ AttemptErrFresh(c))
        /\ WF_vars(Backoff(c))

SpecFresh == Init /\ [][NextFresh]_vars /\ FairFresh

-----------------------------------------------------------------------------
(* Specification: listings against a service that never ends a listing and   *)
(* never fails; it answers MaxPages list RPCs.                               *)

AttemptOkEndless(c) == \E response \in EndlessPages(c) : Succeeds(c, response)

NextEndless ==
    \/ \E c \in Callers : list_databases(c)
    \/ \E c \in Callers : list_backups(c)
    \/ \E c \in Callers : list_backup_operations(c)
    \/ \E c \in Callers : list_database_operations(c)
    \/ \E c \in Callers : Attempt(c)
    \/ \E c \in Callers : AttemptOkEndless(c)

FairEndless ==
    \A c \in Callers :
        /\ WF_vars(Attempt(c))
        /\ WF_vars(AttemptOkEndless(c))

SpecEndless == Init /\ [][NextEndless]_vars /\ FairEndless

-----------------------------------------------------------------------------
(* Specification: calls of the three kinds that the caller may drop while    *)
(* they are suspended.                                                       *)

NextCancel ==
    \/ \E c \in Callers : list_databases(c)
    \/ \E c \in Callers : create_database(c)
    \/ \E c \in Callers : get_database(c)
    \/ \E c \in Callers : Attempt(c)
    \/ \E c \in Callers : AttemptOk(c)
    \/ \E c \in Callers : AttemptErr(c)
    \/ \E c \in Callers : Backoff(c)
    \/ \E c \in Callers : Cancel(c)

SpecCancel == Init /\ [][NextCancel]_vars

-----------------------------------------------------------------------------
(* Specification: two calls on the same client at once, with different       *)
(* requests, their attempts and pages interleaved in any order.              *)

\* the service's pages for concurrent listings: full pages, any token
ConcPages(c) ==
    {Response(PageMessage(method[c], FreshItems(c, MaxPageLen), t)) :
        t \in {""} \cup (IF Len(served[c]) + 1 < MaxPages THEN Tokens ELSE {})}

AttemptOkConc(c) == \E response \in ConcPages(c) : Succeeds(c, response)

\* call 1 lists the databases of one instance from the start
CallOne ==
    Begin(1, "list_databases",
          [parent |-> "projects/p/instances/i", page_size |-> 10, page_token |-> ""],
          None)

\* call 2 lists the backups of another instance from token "t1"
CallTwo ==
    Begin(2, "list_backups",
          [parent |-> "projects/p/instances/j", page_size |-> 10, page_token |-> "t1"],
          None)

NextConc ==
    \/ CallOne
    \/ CallTwo
    \/ \E c \in CallIds : Attempt(c)
    \/ \E c \in CallIds : AttemptOkConc(c)
    \/ \E c \in CallIds : AttemptErr(c)
    \/ \E c \in CallIds : Backoff(c)

SpecConc == Init /\ [][NextConc]_vars

-----------------------------------------------------------------------------
(* Properties of the list methods *)

Last(seq) == seq[Len(seq)]

IsList(c) == method[c] \in ListMethods

\* C1: a list method that returns Ok returns exactly the concatenation of the
\* item sequences of the pages served, in the order they were served.
C1_Concatenation ==
    \A c \in CallIds :
        (IsList(c) /\ pc[c] = "done" /\ result[c].kind = "ok")
            => result[c].value = Concat(served[c])

\* a listing of three pages, <<1, 2>> then <<>> then <<3>>, returned as <<1, 2, 3>>
C1_Witness ==
    \E c \in CallIds :
        /\ IsList(c) /\ pc[c] = "done" /\ result[c].kind = "ok"
        /\ Len(served[c]) = 3
        /\ served[c][1].items = <<1, 2>>
        /\ served[c][2].items = <<>>
        /\ served[c][3].items = <<3>>
        /\ result[c].value = <<1, 2, 3>>

\* C2: a list method has returned Ok exactly when the latest page served carries
\* an empty token; no page is requested once such a page has been served (every
\* earlier page carries a non-empty token, the call is over and nothing is in
\* flight), and a listing whose first page carries an empty token returns that
\* page's items.
C2_SuccessOnlyOnEmptyToken ==
    \A c \in CallIds :
        IsList(c) =>
            /\ (pc[c] = "done" /\ result[c].kind = "ok")
                  <=> (served[c] # <<>> /\ Last(served[c]).token = "")
            /\ \A i \in 1..(Len(served[c]) - 1) : served[c][i].token # ""
            /\ (served[c] # <<>> /\ Last(served[c]).token = "")
                  => (pc[c] = "done" /\ inflight[c] = None)
            /\ (served[c] # <<>> /\ served[c][1].token = "")
                  => (Len(served[c]) = 1 /\ result[c] = Ok(served[c][1].items))

\* a first page with items and an empty token, returned after a single attempt
C2_Witness ==
    \E c \in CallIds :
        /\ IsList(c) /\ pc[c] = "done"
        /\ Len(served[c]) = 1 /\ served[c][1].token = ""
        /\ served[c][1].items = <<1, 2>>
        /\ rpcs[c] = 1
        /\ result[c] = Ok(<<1, 2>>)

\* the step of call c in which a list RPC succeeds
PageStep(c) == Len(served'[c]) = Len(served[c]) + 1

\* the step of call c in which an RPC attempt is issued
AttemptStep(c) == rpcs'[c] = rpcs[c] + 1

\* C3: a page without items and with a non-empty token does not end the listing:
\* the method goes on to its next retrying call with the page token set to the
\* token of that page, and the list RPCs it then issues carry that token.
C3_ContinueOnToken ==
    [][\A c \in CallIds :
          /\ (PageStep(c) /\ Last(served'[c]).items = <<>>
                          /\ Last(served'[c]).token # "")
                => /\ pc'[c] = "invoke"
                   /\ result'[c] = None
                   /\ req'[c].page_token = Last(served'[c]).token
          /\ (AttemptStep(c) /\ IsList(c) /\ served[c] # <<>>
                             /\ Last(served[c]).items = <<>>)
                => /\ Last(served[c]).token # ""
                   /\ inflight'[c].message.page_token = Last(served[c]).token]_vars

\* the first page was empty with token "t2"; the second list RPC is in flight with it
C3_Witness ==
    \E c \in CallIds :
        /\ IsList(c) /\ pc[c] = "await"
        /\ Len(served[c]) = 1
        /\ served[c][1] = [items |-> <<>>, token |-> "t2"]
        /\ rpcs[c] = 2
        /\ inflight[c].message.page_token = "t2"

\* the latest attempt of call c failed and invoke does not re-attempt it
Unrecoverable(c) ==
    /\ lastAttempt[c].kind = "err"
    /\ pc[c] \notin {"await", "idle"}
    /\ ~ (/\ lastAttempt[c].value.code \in retry[c].codes
          /\ attempts[c] < retry[c].max_attempts)

\* C4: when the retrying call of a page ends in an unrecoverable error, the list
\* method is over with exactly that error as its result (none of the items
\* collected from earlier pages) and has issued no RPC after the failed attempt.
C4_AbortOnError ==
    \A c \in CallIds :
        (IsList(c) /\ Unrecoverable(c))
            => /\ pc[c] = "done"
               /\ result[c] = Err(lastAttempt[c].value)
               /\ rpcs[c] = lastAttempt[c].value.message
               /\ inflight[c] = None

\* two items were collected from the first page, then the second page failed
C4_Witness ==
    \E c \in CallIds :
        /\ IsList(c) /\ Unrecoverable(c)
        /\ Len(served[c]) = 1 /\ all_items[c] = <<1, 2>>
        /\ result[c].kind = "err"
        /\ result[c].value.code = "NotFound"

\* the call has been made and has not returned
Running(c) == pc[c] \in {"invoke", "await", "backoff"}

\* C5: against a service whose non-empty tokens are all different, a list method
\* that was called returns, and it never asks for more pages than the service
\* has tokens plus one.
C5_Terminates ==
    \A c \in CallIds :
        /\ (pc[c] # "idle") ~> (pc[c] = "done")
        /\ [](Running(c) => HasFreshPage(c))

\* a listing that used every token: three pages, then Ok with all their items
C5_Witness ==
    \E c \in CallIds :
        /\ IsList(c) /\ pc[c] = "done" /\ result[c].kind = "ok"
        /\ Len(served[c]) = Cardinality(Tokens) + 1
        /\ ReturnedTokens(c) = Tokens \cup {""}
        /\ Len(result[c].value) = (Cardinality(Tokens) + 1) * MaxPageLen

\* C6: against a service that returns a non-empty token on every page, a list
\* method never returns, repeated tokens included: it keeps every item of every
\* page in its accumulator and sends one more list RPC after each page, as far
\* as the service answers.
C6_NoPageBound ==
    \A c \in CallIds :
        /\ [](pc[c] # "done" /\ result[c] = None)
        /\ [](all_items[c] = Concat(served[c]))
        /\ (pc[c] # "idle")
              ~> (pc[c] = "await" /\ Len(served[c]) = MaxPages
                                  /\ rpcs[c] = MaxPages + 1)

\* the service handed back the caller's own token "t1" on every page
C6_Witness ==
    \E c \in CallIds :
        /\ IsList(c) /\ pc[c] = "await"
        /\ Len(served[c]) = MaxPages
        /\ \A i \in 1..MaxPages : served[c][i].token = "t1"
        /\ inflight[c].message.page_token = "t1"
        /\ rpcs[c] = MaxPages + 1
        /\ Len(all_items[c]) = MaxPages * MaxPageLen

-----------------------------------------------------------------------------
(* Properties of the retrying call, as every method uses it *)

Called(c) == pc[c] \notin {"idle", "panicked"}

\* the policy of call c: the caller's when one was passed, else the default
PolicyOf(c) == IF given[c].kind = "some" THEN given[c].value ELSE default_retry_setting

C8_LastErrorUnchanged ==
    \A c \in CallIds :
        /\ (/\ Called(c) /\ pc[c] # "await"
            /\ lastAttempt[c].kind = "err"
            /\ attempts[c] = PolicyOf(c).max_attempts)
              => /\ pc[c] = "done"
                 /\ result[c] = Err(lastAttempt[c].value)
                 /\ result[c].value.message = rpcs[c]
        /\ (Called(c) /\ result[c].kind = "err")
              => /\ result[c] = lastAttempt[c]
                 /\ result[c].value.message = rpcs[c]

\* get_iam_policy under the default policy: two attempts, both "Unavailable"
C8_Witness ==
    \E c \in CallIds :
        /\ method[c] = "get_iam_policy" /\ pc[c] = "done"
        /\ given[c] = None
        /\ attempts[c] = DefaultMaxAttempts /\ rpcs[c] = DefaultMaxAttempts
        /\ result[c] = Err([code |-> "Unavailable", message |-> DefaultMaxAttempts])

\* C9: the retrying call backs off towards another attempt only after a failure
\* whose status the call's policy classifies retryable and with attempts left;
\* after a failure with a status that is not retryable the method is over, its
\* result is Err of that status and no RPC was issued after the failed one.
C9_RetryOnlyRetryable ==
    \A c \in CallIds :
        Called(c) =>
            /\ pc[c] = "backoff"
                  => /\ lastAttempt[c].kind = "err"
                     /\ lastAttempt[c].value.code \in PolicyOf(c).codes
                     /\ attempts[c] < PolicyOf(c).max_attempts
            /\ (/\ lastAttempt[c].kind = "err"
                /\ lastAttempt[c].value.code \notin PolicyOf(c).codes)
                  => /\ pc[c] = "done"
                     /\ result[c] = Err(lastAttempt[c].value)
                     /\ rpcs[c] = lastAttempt[c].value.message

\* delete_backup with a policy that retries "Aborted" twice: the first attempt
\* failed with "Unavailable" and was the only one
C9_Witness ==
    \E c \in CallIds :
        /\ method[c] = "delete_backup" /\ pc[c] = "done"
        /\ given[c] = [kind |-> "some",
                       value |-> [max_attempts |-> MaxAttempts, codes |-> {"Aborted"}]]
        /\ MaxAttempts > 1
        /\ rpcs[c] = 1
        /\ result[c] = Err([code |-> "Unavailable", message |-> 1])

\* C10: an operation-starting method whose retrying call succeeds returns Ok of
\* a handle made of the descriptor of the successful attempt and the client's
\* lro_client; when the retrying call fails it returns the Err, and no handle.
C10_OperationHandle ==
    \A c \in CallIds :
        (method[c] \in LroMethods /\ Called(c)) =>
            /\ lastAttempt[c].kind = "ok"
                  => /\ pc[c] = "done"
                     /\ result[c] = Ok([kind |-> "operation",
                                        client |-> lro_client,
                                        inner |-> lastAttempt[c].value.message])
                     /\ result[c].value.inner \in Descriptors
            /\ pc[c] = "done"
                  => /\ result[c].kind = lastAttempt[c].kind
                     /\ result[c].kind = "err" => result[c] = lastAttempt[c]

\* create_database: a failed attempt, then a descriptor that is already done
C10_Witness ==
    \E c \in CallIds :
        /\ method[c] = "create_database" /\ pc[c] = "done"
        /\ rpcs[c] = 2
        /\ result[c].kind = "ok"
        /\ result[c].value.client = lro_client
        /\ result[c].value.inner = [name |-> "operations/1", done |-> TRUE]

-----------------------------------------------------------------------------
(* Properties of calls that run at the same time *)

\* everything call c owns
Local(c) ==
    <<method[c], req[c], given[c], retry[c], all_items[c], pc[c], attempts[c],
      inflight[c], result[c], served[c], rpcs[c], lastAttempt[c], asked[c],
      cancelled[c]>>

\* the page token a listing holds after the pages it was served itself
OwnToken(c) ==
    LET n == IF served[c] # <<>> /\ Last(served[c]).token = ""
             THEN Len(served[c]) - 1 ELSE Len(served[c])
    IN IF n = 0 THEN asked[c].page_token ELSE served[c][n].token

\* what a listing returns when it is alone with the responses it was given
AloneResult(c) ==
    IF lastAttempt[c].kind = "ok" THEN Ok(Concat(served[c])) ELSE lastAttempt[c]

\* C11: with two listings under way at once, every step touches the state of
\* one call only, and each call's request, accumulator and result are those its
\* own responses give: the caller's request with the token of its own latest
\* page, the items of its own pages, and the result it has when run alone.
C11_CallsIndependent ==
    /\ [][\E c \in CallIds : \A d \in CallIds \ {c} : Local(d)' = Local(d)]_vars
    /\ [](\A c \in CallIds :
            Called(c) =>
                /\ req[c] = [asked[c] EXCEPT !.page_token = OwnToken(c)]
                /\ all_items[c] = Concat(served[c])
                /\ pc[c] = "done" => result[c] = AloneResult(c))

\* both listings are waiting for their second page, each with the token of its
\* own first page
C11_Witness ==
    /\ pc[1] = "await" /\ pc[2] = "await"
    /\ Len(served[1]) = 1 /\ served[1][1].token = "t2"
    /\ Len(served[2]) = 1 /\ served[2][1].token = "t1"
    /\ inflight[1].message.page_token = "t2"
    /\ inflight[2].message.page_token = "t1"
    /\ inflight[1].message.parent # inflight[2].message.parent

-----------------------------------------------------------------------------
(* Properties of a cancelled call *)

\* C12: once the caller has dropped a call, whether an attempt was in flight or
\* the call was between attempts or pages, no attempt of it is in flight, no
\* further attempt or page request is sent for it, no page is taken in, and it
\* never delivers a result, neither the full list nor the items gathered so far.
C12_NothingAfterCancel ==
    /\ [](\A c \in CallIds :
            cancelled[c] => inflight[c] = None /\ result[c] = None)
    /\ [][\A c \in CallIds :
            cancelled[c] =>
                /\ rpcs'[c] = rpcs[c]
                /\ attempts'[c] = attempts[c]
                /\ served'[c] = served[c]
                /\ all_items'[c] = all_items[c]
                /\ result'[c] = result[c]]_vars

\* a listing dropped after a failed attempt for its second page, with the items
\* of the first page gathered and never delivered
C12_Witness ==
    \E c \in Callers :
        /\ cancelled[c] /\ IsList(c)
        /\ Len(served[c]) = 1 /\ all_items[c] # <<>>
        /\ lastAttempt[c].kind = "err"
        /\ result[c] = None

-----------------------------------------------------------------------------
(* Properties of the requests sent *)

\* the routing metadata each method owes to the request its caller passed
ExpectedRouting(c) ==
    LET m == method[c]
        r == asked[c]
    IN CASE m \in ListMethods \cup {"create_database", "create_backup",
                                     "restore_database"} -> "parent=" \o r.parent
         [] m \in {"get_database", "get_backup", "delete_backup"} -> "name=" \o r.name
         [] m \in {"update_database_ddl", "drop_database", "get_database_ddl"}
              -> "database=" \o r.database
         [] m \in {"set_iam_policy", "get_iam_policy", "test_iam_permissions"}
              -> "resource=" \o r.resource
         [] m = "update_backup" -> "backup.name=" \o r.backup.name

\* the page token a list RPC has to carry: the caller's before any page was
\* served, then the token of the latest page served
CurrentToken(c) ==
    IF served[c] = <<>> THEN asked[c].page_token ELSE Last(served[c]).token

\* C13: whatever the attempt (first, retry, later page), the request in flight
\* is the decoration of the call's current request with the routing metadata
\* "<field>=<value>" of the caller's request, never without metadata; when no
\* attempt is in flight the decorated request is gone (consumed by the attempt),
\* so each attempt builds its own.
C13_FreshRoutedRequest ==
    \A c \in CallIds :
        Called(c) =>
            /\ pc[c] = "await"
                  => /\ inflight[c] # None
                     /\ inflight[c].metadata # ""
                     /\ inflight[c].metadata = ExpectedRouting(c)
                     /\ inflight[c].message = req[c]
            /\ pc[c] # "await" => inflight[c] = None

\* the second attempt of get_iam_policy, a retry, routed by "resource"
C13_Witness ==
    \E c \in CallIds :
        /\ method[c] = "get_iam_policy" /\ pc[c] = "await"
        /\ attempts[c] = 2 /\ lastAttempt[c].kind = "err"
        /\ inflight[c] = [metadata |-> "resource=" \o asked[c].resource,
                          message |-> asked[c]]

\* C14: in a listing the call's request differs from the caller's in the page
\* token at most; every list RPC carries the caller's other fields and the
\* routing key of the caller's parent, and after the first page its page token
\* is the token of the page served just before.
C14_OnlyPageTokenChanges ==
    \A c \in CallIds :
        (IsList(c) /\ Called(c)) =>
            /\ DOMAIN req[c] = DOMAIN asked[c]
            /\ \A f \in DOMAIN asked[c] \ {"page_token"} : req[c][f] = asked[c][f]
            /\ pc[c] = "await"
                  => /\ inflight[c].message.parent = asked[c].parent
                     /\ inflight[c].message.page_size = asked[c].page_size
                     /\ inflight[c].metadata = "parent=" \o asked[c].parent
                     /\ served[c] # <<>>
                           => inflight[c].message.page_token = Last(served[c]).token

\* the request for the third page: token of the second page, everything else
\* as the caller passed it
C14_Witness ==
    \E c \in CallIds :
        /\ IsList(c) /\ pc[c] = "await"
        /\ Len(served[c]) = 2
        /\ served[c][1].token = "t1" /\ served[c][2].token = "t2"
        /\ asked[c].page_token = ""
        /\ inflight[c].message = [asked[c] EXCEPT !.page_token = "t2"]

\* C15: every attempt of a listing, retries included, carries the current page
\* token: the caller's own token until a page has been served, then the token of
\* the latest page; the accumulator holds the items of the pages served, each
\* once, so an attempt that failed has added nothing.
C15_RetrySamePage ==
    \A c \in CallIds :
        (IsList(c) /\ Called(c)) =>
            /\ all_items[c] = Concat(served[c])
            /\ pc[c] \in {"invoke", "await", "backoff"}
                  => req[c].page_token = CurrentToken(c)
            /\ pc[c] = "await" => inflight[c].message.page_token = CurrentToken(c)
            /\ served[c] = <<>> => req[c] = asked[c]

\* a listing asked to start at "t1": its first page came with token "t2", the
\* first attempt for the next page failed, and the retry in flight carries "t2"
\* while the accumulator holds the first page's items only
C15_Witness ==
    \E c \in CallIds :
        /\ IsList(c) /\ pc[c] = "await"
        /\ asked[c].page_token = "t1"
        /\ Len(served[c]) = 1 /\ served[c][1].token = "t2"
        /\ served[c][1].items # <<>>
        /\ attempts[c] = 2 /\ lastAttempt[c].kind = "err"
        /\ inflight[c].message.page_token = "t2"
        /\ all_items[c] = served[c][1].items

-----------------------------------------------------------------------------
(* Properties of the retry policy *)

\* C16: the policy of a call is the caller's when one was passed and the
\* default otherwise; the attempts made for one page never exceed the policy's
\* limit, each page of a listing starts with no attempt made, and a listing has
\* sent at most (pages served + 1) times the limit.
C16_PolicyPerPage ==
    \A c \in CallIds :
        Called(c) =>
            /\ retry[c] = IF given[c] = None THEN default_retry_setting
                          ELSE given[c].value
            /\ attempts[c] <= retry[c].max_attempts
            /\ rpcs[c] <= (Len(served[c]) + 1) * retry[c].max_attempts
            /\ (IsList(c) /\ pc[c] = "invoke" /\ lastAttempt[c] # None
                  /\ lastAttempt[c].kind = "ok") => attempts[c] = 0

\* a listing of MaxPages pages under the caller's policy, every page served at
\* the last attempt the policy allows: MaxPages * MaxAttempts RPCs in all
C16_Witness ==
    \E c \in CallIds :
        /\ IsList(c) /\ pc[c] = "done" /\ result[c].kind = "ok"
        /\ given[c] # None /\ retry[c].max_attempts = MaxAttempts
        /\ MaxAttempts > 1
        /\ Len(served[c]) = MaxPages
        /\ rpcs[c] = MaxPages * MaxAttempts

-----------------------------------------------------------------------------
(* Properties of update_backup *)

\* C17: update_backup without a backup in the request panics at once: no RPC
\* was sent, nothing is in flight and no result, Ok or Err, reaches the caller;
\* with a backup it never panics, every attempt is routed by
\* "backup.name=<name of the backup>" and carries the caller's request, and it
\* returns what its latest attempt returned.
C17_UpdateBackupPanics ==
    \A c \in CallIds :
        (method[c] = "update_backup" /\ pc[c] # "idle") =>
            /\ asked[c].backup = None
                  => /\ pc[c] = "panicked"
                     /\ rpcs[c] = 0 /\ attempts[c] = 0
                     /\ inflight[c] = None
                     /\ result[c] = None /\ lastAttempt[c] = None
            /\ asked[c].backup # None
                  => /\ pc[c] # "panicked"
                     /\ pc[c] = "await"
                           => inflight[c] =
                                [metadata |-> "backup.name=" \o asked[c].backup.name,
                                 message |-> asked[c]]
                     /\ pc[c] = "done" => result[c] = lastAttempt[c]
                     /\ pc[c] = "backoff"
                           => lastAttempt[c].value.code \in retry[c].codes

\* update_backup called without a backup: panicked, no RPC sent
C17_Witness ==
    \E c \in CallIds :
        /\ method[c] = "update_backup" /\ pc[c] = "panicked"
        /\ asked[c] = [backup |-> None]
        /\ rpcs[c] = 0 /\ result[c] = None

====
